---- MODULE Spec2Model ----
(***************************************************************************)
(* Verification model of MetaRLforPnP:                                     *)
(*   - dataset/datasets.py : BaseDataset.task_tokenizer,                   *)
(*       TrainingDataset.__getitem__ (trajectory window sampler),          *)
(*       EvaluationDataset.__getitem__ (initial return-to-go)              *)
(*   - train.py : Trainer._get_latest_action, Trainer._run_evaluation      *)
(*       (rollout driver and its buffers), Trainer.train                   *)
(*                                                                         *)
(* Three specifications share the variables; each drives one component and *)
(* leaves the other components idle:                                       *)
(*   SpecWindow  - TrainingDataset.__getitem__ on one trajectory record    *)
(*   SpecRollout - Trainer._run_evaluation, one episode                    *)
(*   SpecTrain   - Trainer.train, the epoch loop                           *)
(*                                                                         *)
(* The policy, the environment, the checkpoint writer and the batch step   *)
(* are external collaborators: a call to one either returns a value from a *)
(* small set or raises.  Floating point values are kept as exact fractions *)
(* <<numerator, denominator>>.                                             *)
(*                                                                         *)
(* The rollout is modelled as its statements run once its inputs are in    *)
(* hand: arity and attribute errors of the surrounding glue (the unpacking *)
(* in EvaluationDataset.get_eval_obs, the module-level names model and     *)
(* dataset) are left out, the index arithmetic and the buffer writes are   *)
(* kept as written.                                                        *)
(***************************************************************************)
EXTENDS Integers, Sequences, FiniteSets, TLC

VARIABLES
    \* TrainingDataset.__getitem__
    traj,          \* the trajectory record read from the JSON file
    block_size,    \* self.block_size
    rtg_scale,     \* self.rtg_scale of the training dataset
    w_pc,          \* "ready" | "returned" | "KeyError"
    start,         \* the start offset chosen by __getitem__
    ret            \* the returned tuple, as a record (NoRet before the return)

VARIABLES
    \* Trainer._run_evaluation
    context_length,  \* self.context_length
    max_timesteps,   \* self.max_timesteps, the capacity of the rollout buffers
    env,             \* the environment's reward profile for this episode
    r_pc,            \* "start" | "active" | "terminated" | "IndexError"
    time,            \* the loop variable of the rollout (0 before the loop)
    rtg,             \* the local rtg: the sample builder's value, then the reward delta
    old_reward,      \* old_reward
    rewards,         \* the absolute rewards observed so far, rewards[1] from reset
    eval_rtg,        \* eval_rtg[0, i] for i in 0..max_timesteps-1
    written,         \* the indices of eval_states, eval_rtg, eval_actions assigned so far
    query,           \* the slice [lo, hi) of the buffers passed to the last policy call
    slice_pos        \* the position _get_latest_action read in the last prediction

VARIABLES
    \* Trainer.train
    max_epochs,    \* self.config.max_epochs
    save_every,    \* self.save_every
    ddp,           \* self.ddp
    gpu_id,        \* self.gpu_id (set by __init__ only when ddp)
    t_pc,          \* "epoch" | "cond" | "checkpoint" | "evaluation" | "returned" | "raised"
    epoch,         \* the loop variable of train
    raised_by,     \* the call whose exception left train ("none" when none did)
    evaluations    \* the number of rollout evaluations that returned

wvars == <<traj, block_size, rtg_scale, w_pc, start, ret>>

rvars == <<context_length, max_timesteps, env, r_pc, time, rtg, old_reward, rewards,
           eval_rtg, written, query, slice_pos>>

tvars == <<max_epochs, save_every, ddp, gpu_id, t_pc, epoch, raised_by, evaluations>>

vars == <<wvars, rvars, tvars>>

----------------------------------------------------------------------------
(* Bounds *)
MaxTrajLen == 5
MaxBlockSize == 5
MaxVal == 1
MaxCtx == 5
MaxEpochs == 4
MaxSaveEvery == 3

----------------------------------------------------------------------------
(* Helpers *)
Min(a, b) == IF a <= b THEN a ELSE b

Max(a, b) == IF a >= b THEN a ELSE b

\* a float kept as an exact fraction
Rat(n, d) == <<n, d>>

Zero == Rat(0, 1)

IsZero(r) == r[1] = 0

\* Python list slice s[a:b] for 0 <= a, clamped to the list
Slice(s, a, b) == SubSeq(s, a + 1, Min(b, Len(s)))

\* torch.zeros / torch.ones of length n with element z
Fill(n, z) == [i \in 1..n |-> z]

\* torch.arange(a, b)
Arange(a, b) == [i \in 1..(b - a) |-> a + i - 1]

\* np.random.randint(low, high): the values a draw can produce (high exclusive)
RandInt(low, high) == low..(high - 1)

----------------------------------------------------------------------------
(* Task encoder *)
tasks == <<"2x_5", "2x_10", "2x_15", "4x_5", "4x_10", "4x_15", "8x_5", "8x_10", "8x_15">>

\* {task: i for i, task in enumerate(tasks)}
task_tokenizer == [t \in {tasks[i] : i \in 1..Len(tasks)} |-> (CHOOSE i \in 1..Len(tasks) : tasks[i] = t) - 1]

\* traj_dict['acceleration'][0] + '_' + traj_dict['noise_level'].  A JSON string
\* is held as the sequence of its characters and a JSON list as the sequence of
\* its elements, so [0] is the first character of a string and the first
\* element of a list.
TaskKey(acceleration, noise_level) == acceleration[1] \o "_" \o noise_level

\* encode = lambda s: self.task_tokenizer[s]: defined on the keys of the table only
CanEncode(s) == s \in DOMAIN task_tokenizer

encode(s) == task_tokenizer[s]

----------------------------------------------------------------------------
(* Trajectory records *)
ActionKeys == <<"T", "mu">>

AccelFactors == {"2x", "4x", "8x", "6x"}

NoiseLevels == {"5", "10", "15", "20"}

\* the characters of an acceleration string
Chars(a) == <<CASE a = "2x" -> "2" [] a = "4x" -> "4" [] a = "8x" -> "8" [] OTHER -> "6", "x">>

\* the JSON values the 'acceleration' field can hold for factor a
AccelValues(a) == {Chars(a), <<a>>}

\* the factor an 'acceleration' value stands for
FactorOf(acc) == IF Len(acc) = 1 THEN acc[1] ELSE acc[1] \o acc[2]

\* a record of length n whose step values derive from v
Record(n, v, acc, noise) ==
    [RTG          |-> [i \in 1..n |-> v * (n - i + 1)],
     Actions      |-> [k \in 1..Len(ActionKeys) |-> [i \in 1..n |-> v + k + i]],
     pixels       |-> [i \in 1..n |-> v * (40 * i)],
     acceleration |-> acc,
     noise_level  |-> noise]

NoRet == [returned |-> FALSE]

----------------------------------------------------------------------------
(* TrainingDataset.__getitem__ *)

\* _get_states: x/255 per step, then zero padding
_get_states(rec, traj_start, traj_end, pad) ==
    [i \in 1..(traj_end - traj_start) |-> Rat(rec.pixels[traj_start + i], 255)]
        \o Fill(pad, Zero)

\* _get_actions: one row per step, one column per key, then zero rows
_get_actions(action_dict, traj_start, traj_end, pad) ==
    LET action_lis == [k \in 1..Len(action_dict) |-> Slice(action_dict[k], traj_start, traj_end)]
        n == Len(action_lis[1])
    IN [i \in 1..n |-> [k \in 1..Len(action_dict) |-> action_lis[k][i]]]
           \o Fill(pad, [k \in 1..Len(action_dict) |-> 0])

\* the start offsets the sampler can choose
StartChoices(traj_len, bs) ==
    IF traj_len >= bs
    THEN IF traj_len = bs THEN {0} ELSE RandInt(0, traj_len - bs)
    ELSE {0}

\* a mask that marks the padding as valid
PaddedMask_AllOnes(traj_len, padding_len) == Fill(traj_len + padding_len, 1)

\* traj_masks of the padded branch
PaddedMask(traj_len, padding_len) == Fill(traj_len, 1) \o Fill(padding_len, 0)

\* timesteps counted from the window start instead of the trajectory start
FullTimesteps_Relative(s, bs) == Arange(0, bs)

\* timesteps of the full branch
FullTimesteps(s, bs) == Arange(s, s + bs)

\* the tuple __getitem__ returns for start offset s
Window(rec, bs, scale, s) ==
    LET traj_len == Len(rec.RTG)
        task == Fill(bs, encode(TaskKey(rec.acceleration, rec.noise_level)))
    IN IF traj_len >= bs
       THEN [returned   |-> TRUE,
             states     |-> _get_states(rec, s, s + bs, 0),
             actions    |-> _get_actions(rec.Actions, s, s + bs, 0),
             rtg        |-> [i \in 1..Len(Slice(rec.RTG, s, s + bs)) |-> Rat(Slice(rec.RTG, s, s + bs)[i], scale)],
             traj_masks |-> Fill(bs, 1),
             timesteps  |-> FullTimesteps(s, bs),
             task       |-> task]
       ELSE LET padding_len == bs - traj_len
            IN [returned   |-> TRUE,
                states     |-> _get_states(rec, 0, traj_len, padding_len),
                actions    |-> _get_actions(rec.Actions, 0, traj_len, padding_len),
                rtg        |-> [i \in 1..traj_len |-> Rat(rec.RTG[i], scale)] \o Fill(padding_len, Zero),
                traj_masks |-> PaddedMask(traj_len, padding_len),
                timesteps  |-> Arange(0, bs),
                task       |-> task]

GetItem ==
    /\ w_pc = "ready"
    /\ IF ~CanEncode(TaskKey(traj.acceleration, traj.noise_level))
       THEN /\ w_pc' = "KeyError"
            /\ UNCHANGED <<start, ret>>
       ELSE \E s \in StartChoices(Len(traj.RTG), block_size) :
                /\ start' = s
                /\ ret' = Window(traj, block_size, rtg_scale, s)
                /\ w_pc' = "returned"
    /\ UNCHANGED <<traj, block_size, rtg_scale>>

WInit ==
    /\ \E n \in 1..MaxTrajLen, v \in 0..MaxVal, a \in AccelFactors, noise \in NoiseLevels :
          \E acc \in AccelValues(a) : traj = Record(n, v, acc, noise)
    /\ block_size \in 1..MaxBlockSize
    /\ rtg_scale \in {1, 2}
    /\ w_pc = "ready"
    /\ start = 0
    /\ ret = NoRet

WIdle ==
    /\ traj = Record(1, 0, <<"2x">>, "5")
    /\ block_size = 1
    /\ rtg_scale = 1
    /\ w_pc = "idle"
    /\ start = 0
    /\ ret = NoRet

----------------------------------------------------------------------------
(* Trainer._run_evaluation *)
max_step == 30

\* EvaluationDataset(rtg_scale = 1, rtg_target = 16)
rtg_target == 16

eval_rtg_scale == 1

\* dataset.rtg_scale: TrainingDataset(rtg_scale = 1)
dataset_rtg_scale == 1

\* a / d for the scales in use (d divides a)
Div(a, d) == a \div d

\* EvaluationDataset.__getitem__: rtg = self.rtg_target/self.rtg_scale
SampleRtg == Div(rtg_target, eval_rtg_scale)

\* env.compute_reward / env.step: the absolute reward after t steps
EnvReward(e, t) == e.r0 + e.gain * t

\* the buffer slice [lo, hi) a Python slice a:b selects from a buffer of length n
BufSlice(a, b, n) == [lo |-> Min(a, n), hi |-> Max(Min(a, n), Min(b, n))]

\* the slice of the first policy call: eval_rtg[:, :4]
InitialQueryWindow(n) == BufSlice(0, 4, n)

\* the slice of the policy call of step t
StepQueryWindow(t, cl, n) ==
    IF t < cl THEN BufSlice(0, 4, n) ELSE BufSlice(t - cl, t, n)

WindowLen(q) == q.hi - q.lo

\* _get_latest_action: slice_index
LatestSliceIndex(index) == IF index >= 3 THEN -1 ELSE index

\* the position x[slice_index] reads in a sequence of length n (n when out of range)
Position(slice_index, n) ==
    LET p == IF slice_index < 0 THEN slice_index + n ELSE slice_index
    IN IF 0 <= p /\ p < n THEN p ELSE n

NoQuery == [lo |-> 0, hi |-> 0, made |-> FALSE]

MadeQuery(q) == [lo |-> q.lo, hi |-> q.hi, made |-> TRUE]

\* lines 153-168: buffers, reset, first policy call, first action
StartRollout ==
    /\ r_pc = "start"
    /\ eval_rtg' = [i \in 0..(max_timesteps - 1) |-> 0]
    /\ written' = [states |-> {}, rtg |-> {}, actions |-> {}]
    /\ rtg' = SampleRtg
    /\ old_reward' = EnvReward(env, 0)
    /\ rewards' = <<EnvReward(env, 0)>>
    /\ LET q == InitialQueryWindow(max_timesteps)
           p == Position(LatestSliceIndex(0), WindowLen(q))
       IN /\ query' = MadeQuery(q)
          /\ slice_pos' = p
          /\ r_pc' = IF p = WindowLen(q) THEN "IndexError" ELSE "active"
    /\ UNCHANGED <<context_length, max_timesteps, env, time>>

\* one iteration of the loop, lines 171-196; d is the environment's done flag
Step(d) ==
    /\ r_pc = "active"
    /\ time < max_step
    /\ LET t == time + 1
           reward == EnvReward(env, t)
           delta == reward - old_reward
           scaled_rtg == eval_rtg[t - 1] - Div(delta, dataset_rtg_scale)
       IN /\ time' = t
          /\ rtg' = delta
          /\ old_reward' = reward
          /\ rewards' = Append(rewards, reward)
          /\ IF d \/ t = max_step
             THEN /\ r_pc' = "terminated"
                  /\ query' = [query EXCEPT !.made = FALSE]
                  /\ UNCHANGED <<eval_rtg, written, slice_pos>>
             ELSE IF t >= max_timesteps
             THEN /\ r_pc' = "IndexError"
                  /\ query' = [query EXCEPT !.made = FALSE]
                  /\ UNCHANGED <<eval_rtg, written, slice_pos>>
             ELSE LET q == StepQueryWindow(t, context_length, max_timesteps)
                      p == Position(LatestSliceIndex(t), WindowLen(q))
                  IN /\ eval_rtg' = [eval_rtg EXCEPT ![t] = scaled_rtg]
                     /\ written' = [states  |-> written.states \cup {t},
                                    rtg     |-> written.rtg \cup {t},
                                    actions |-> written.actions \cup {t - 1}]
                     /\ query' = MadeQuery(q)
                     /\ slice_pos' = p
                     /\ r_pc' = IF p = WindowLen(q) THEN "IndexError" ELSE "active"
    /\ UNCHANGED <<context_length, max_timesteps, env>>

RInit ==
    /\ context_length \in 1..MaxCtx
    /\ max_timesteps \in {max_step, max_step + 1}
    /\ env \in [r0 : 0..1, gain : -1..1]
    /\ r_pc = "start"
    /\ time = 0
    /\ rtg = 0
    /\ old_reward = 0
    /\ rewards = <<>>
    /\ eval_rtg = [i \in 0..(max_timesteps - 1) |-> 0]
    /\ written = [states |-> {}, rtg |-> {}, actions |-> {}]
    /\ query = NoQuery
    /\ slice_pos = 0

RIdle ==
    /\ context_length = 4
    /\ max_timesteps = max_step
    /\ env = [r0 |-> 0, gain |-> 0]
    /\ r_pc = "idle"
    /\ time = 0
    /\ rtg = 0
    /\ old_reward = 0
    /\ rewards = <<>>
    /\ eval_rtg = [i \in 0..(max_step - 1) |-> 0]
    /\ written = [states |-> {}, rtg |-> {}, actions |-> {}]
    /\ query = NoQuery
    /\ slice_pos = 0

----------------------------------------------------------------------------
(* Trainer.train *)

\* self._run_epoch() returns
RunEpoch ==
    /\ t_pc = "epoch"
    /\ epoch < max_epochs
    /\ t_pc' = "cond"
    /\ UNCHANGED <<max_epochs, save_every, ddp, gpu_id, epoch, raised_by, evaluations>>

\* a call made by train raises: train has no handler, the exception leaves it
Raise(at, by) ==
    /\ t_pc = at
    /\ t_pc' = "raised"
    /\ raised_by' = by
    /\ UNCHANGED <<max_epochs, save_every, ddp, gpu_id, epoch, evaluations>>

RunEpochRaises == epoch < max_epochs /\ Raise("epoch", "_run_epoch")

\* if self.gpu_id == 0 and epoch % self.save_every == 0
SaveCondition ==
    /\ t_pc = "cond"
    /\ IF ~ddp
       THEN /\ t_pc' = "raised"
            /\ raised_by' = "gpu_id"
            /\ UNCHANGED epoch
       ELSE IF gpu_id = 0 /\ epoch % save_every = 0
       THEN /\ t_pc' = "checkpoint"
            /\ UNCHANGED <<epoch, raised_by>>
       ELSE /\ t_pc' = "epoch"
            /\ epoch' = epoch + 1
            /\ UNCHANGED raised_by
    /\ UNCHANGED <<max_epochs, save_every, ddp, gpu_id, evaluations>>

SaveCheckpoint ==
    /\ t_pc = "checkpoint"
    /\ t_pc' = "evaluation"
    /\ UNCHANGED <<max_epochs, save_every, ddp, gpu_id, epoch, raised_by, evaluations>>

SaveCheckpointRaises == Raise("checkpoint", "_save_checkpoint")

\* self._run_evaluation() returns the final reward
RunEvaluation ==
    /\ t_pc = "evaluation"
    /\ t_pc' = "epoch"
    /\ epoch' = epoch + 1
    /\ evaluations' = evaluations + 1
    /\ UNCHANGED <<max_epochs, save_every, ddp, gpu_id, raised_by>>

\* the policy or the environment fails inside self._run_evaluation()
RunEvaluationRaises == Raise("evaluation", "_run_evaluation")

\* the loop is over
TrainReturns ==
    /\ t_pc = "epoch"
    /\ epoch = max_epochs
    /\ t_pc' = "returned"
    /\ UNCHANGED <<max_epochs, save_every, ddp, gpu_id, epoch, raised_by, evaluations>>

TInit ==
    /\ max_epochs \in 1..MaxEpochs
    /\ save_every \in 1..MaxSaveEvery
    /\ ddp \in BOOLEAN
    /\ gpu_id \in 0..1
    /\ t_pc = "epoch"
    /\ epoch = 0
    /\ raised_by = "none"
    /\ evaluations = 0

TIdle ==
    /\ max_epochs = 1
    /\ save_every = 1
    /\ ddp = FALSE
    /\ gpu_id = 0
    /\ t_pc = "idle"
    /\ epoch = 0
    /\ raised_by = "none"
    /\ evaluations = 0

----------------------------------------------------------------------------
(* Specifications *)
InitWindow == WInit /\ RIdle /\ TIdle

NextWindow == GetItem /\ UNCHANGED <<rvars, tvars>>

SpecWindow == InitWindow /\ [][NextWindow]_vars

InitRollout == WIdle /\ RInit /\ TIdle

NextRollout ==
    \/ StartRollout /\ UNCHANGED <<wvars, tvars>>
    \/ \E d \in BOOLEAN : Step(d) /\ UNCHANGED <<wvars, tvars>>

SpecRollout == InitRollout /\ [][NextRollout]_vars

InitTrain == WIdle /\ RIdle /\ TInit

NextTrain ==
    \/ RunEpoch /\ UNCHANGED <<wvars, rvars>>
    \/ RunEpochRaises /\ UNCHANGED <<wvars, rvars>>
    \/ SaveCondition /\ UNCHANGED <<wvars, rvars>>
    \/ SaveCheckpoint /\ UNCHANGED <<wvars, rvars>>
    \/ SaveCheckpointRaises /\ UNCHANGED <<wvars, rvars>>
    \/ RunEvaluation /\ UNCHANGED <<wvars, rvars>>
    \/ RunEvaluationRaises /\ UNCHANGED <<wvars, rvars>>
    \/ TrainReturns /\ UNCHANGED <<wvars, rvars>>

SpecTrain == InitTrain /\ [][NextTrain]_vars

----------------------------------------------------------------------------
(* Properties of the trajectory window sampler, under SpecWindow *)

\* the acceleration factor and noise level of the record form one of the nine tasks
Enumerated(rec) ==
    \E i \in 1..Len(tasks) : tasks[i] = FactorOf(rec.acceleration) \o "_" \o rec.noise_level

\* the position of the record's pair in the task table, counted from 0
TaskPosition(rec) ==
    (CHOOSE i \in 1..Len(tasks) : tasks[i] = FactorOf(rec.acceleration) \o "_" \o rec.noise_level) - 1

\* C1: for a record whose pair is one of the nine tasks, __getitem__ returns a
\* task tensor of block_size entries, all equal to the pair's position in the
\* task table (an integer in 0..8); the lookup fails only for a pair outside
\* the enumeration.
C1_TaskEncoded ==
    /\ (w_pc # "ready" /\ Enumerated(traj)) =>
          /\ w_pc = "returned"
          /\ ret.task = Fill(block_size, TaskPosition(traj))
          /\ TaskPosition(traj) \in 0..8
    /\ w_pc = "KeyError" => ~Enumerated(traj)

\* C2: the mask has block_size entries, exactly the first min(traj_len,
\* block_size) are 1 and the rest 0, and where the mask is 0 the state, the
\* action row and the return are exactly zero.
C2_MaskAndPadding ==
    w_pc = "returned" =>
        LET valid == Min(Len(traj.RTG), block_size)
        IN /\ Len(ret.traj_masks) = block_size
           /\ Len(ret.states) = block_size
           /\ Len(ret.actions) = block_size
           /\ Len(ret.rtg) = block_size
           /\ \A i \in 1..block_size :
                 /\ ret.traj_masks[i] = IF i <= valid THEN 1 ELSE 0
                 /\ ret.traj_masks[i] = 0 =>
                       /\ IsZero(ret.states[i])
                       /\ IsZero(ret.rtg[i])
                       /\ \A k \in 1..Len(ret.actions[i]) : ret.actions[i][k] = 0

\* a padded window whose real steps hold non-zero data
C2_Witness ==
    /\ w_pc = "returned"
    /\ Len(traj.RTG) < block_size
    /\ ret.traj_masks[block_size] = 0
    /\ ~IsZero(ret.states[1])
    /\ ~IsZero(ret.rtg[1])

\* C3: for a trajectory of length 5 and block_size 3 the start offsets the
\* sampler can produce are exactly 0, 1 and 2: none other is produced, and each
\* of the three can be the outcome of a draw.
C3_StartsZeroOneTwo ==
    (Len(traj.RTG) = 5 /\ block_size = 3 /\ CanEncode(TaskKey(traj.acceleration, traj.noise_level))) =>
        /\ w_pc = "returned" => start \in {0, 1, 2}
        /\ w_pc = "ready" => \A s \in {0, 1, 2} : ENABLED (GetItem /\ start' = s)

\* C4: the timesteps are start, start+1, ..., start+block_size-1; the start is 0
\* when traj_len <= block_size, padded positions included; traj_len = 2 and
\* block_size = 5 give mask [1,1,0,0,0] and timesteps [0,1,2,3,4].
C4_AbsoluteTimesteps ==
    w_pc = "returned" =>
        /\ ret.timesteps = [i \in 1..block_size |-> start + i - 1]
        /\ Len(traj.RTG) <= block_size => start = 0
        /\ (Len(traj.RTG) = 2 /\ block_size = 5) =>
              /\ ret.traj_masks = <<1, 1, 0, 0, 0>>
              /\ ret.timesteps = <<0, 1, 2, 3, 4>>

\* a window that starts inside the trajectory
C4_Witness ==
    /\ w_pc = "returned"
    /\ start >= 1
    /\ ret.timesteps[1] = start

----------------------------------------------------------------------------
(* Properties of the rollout driver, under SpecRollout *)

\* one more than the largest index assigned (0 when none was)
WritePosition(S) == IF S = {} THEN 0 ELSE 1 + CHOOSE i \in S : \A j \in S : j <= i

\* C5: with context_length = 4 (and max_step = 30), the window passed to the
\* policy at step time has length min(context_length, time).
C5_WindowLength ==
    (context_length = 4 /\ query.made /\ time >= 1) =>
        WindowLen(query) = Min(context_length, time)

\* C6: the latest-action rule reads position min(index, last position of the
\* queried window), a position inside that window, whatever context_length is.
C6_ClampedSlice ==
    query.made =>
        /\ slice_pos = Min(time, WindowLen(query) - 1)
        /\ slice_pos \in 0..(WindowLen(query) - 1)
        /\ r_pc # "IndexError"

\* C7: every window passed to the policy holds only entries already written:
\* no state, return or action index at or beyond the write position.
C7_OnlyWrittenRead ==
    query.made =>
        \A i \in query.lo..(query.hi - 1) :
            /\ i < WritePosition(written.states)
            /\ i < WritePosition(written.rtg)
            /\ i < WritePosition(written.actions)

\* C9: at a step that does not end the episode, the window passed to the policy
\* ends at the current step: its last entry is index time, just written.
C9_WindowEndsAtCurrentStep ==
    (query.made /\ time >= 1) =>
        /\ query.hi - 1 = time
        /\ time \in written.states
        /\ time \in written.rtg

\* C10: the stored return-to-go is rtg_target / rtg_scale at step 0, the
\* previous entry minus the scaled reward difference at every later step, hence
\* rtg_target / rtg_scale - (reward_t - reward_0) / rtg_scale at step t.
C10_ReturnToGo ==
    r_pc \in {"active", "terminated"} =>
        /\ eval_rtg[0] = SampleRtg
        /\ \A t \in written.rtg :
              /\ eval_rtg[t] = eval_rtg[t - 1] - Div(rewards[t + 1] - rewards[t], dataset_rtg_scale)
              /\ eval_rtg[t] = SampleRtg - Div(rewards[t + 1] - rewards[1], dataset_rtg_scale)

----------------------------------------------------------------------------
(* Properties of the training loop, under SpecTrain *)

\* C8: a failure of the rollout evaluation does not leave Trainer.train.
C8_EvaluationFailureAbsorbed ==
    ~(t_pc = "raised" /\ raised_by = "_run_evaluation")

====
